---- MODULE Spec2Model ----
(***************************************************************************)
(* A model of package i2c (src/i2c.go): the Conn object, its constructor   *)
(* NewConn, and the operations Close, Read, Write, ReadUint16/32/64 and    *)
(* WriteUint16/32/64, called by any number of goroutines on one Conn.      *)
(*                                                                         *)
(* The kernel device and package os are the environment.  The device keeps *)
(* the bytes of the last write it took whole and hands them back on a      *)
(* read; every system call may also fail or transfer fewer bytes than      *)
(* asked.                                                                  *)
(*                                                                         *)
(* A uintN value is held as its base-256 numeral, most significant byte    *)
(* first (a sequence of N bytes), since a uint64 does not fit the model    *)
(* checker's integers.                                                     *)
(***************************************************************************)
EXTENDS Integers, Sequences, FiniteSets, TLC

\* Number of goroutines calling operations on the connection.
NThreads == 2

Threads == 1..NThreads

\* ioctl request codes (src/i2c.go:15-25)
SLAVE == 1795
TENBIT == 1796

\* Device addresses the callers of NewConn use (0x76).
Addrs == {118}

\* binary.ByteOrder values a caller can pass to NewConn.
ByteOrders == {"BigEndian", "LittleEndian"}

\* Widths in bytes of the fixed-width helpers.
Widths == {2, 4, 8}

\* The value 0x0102..0N of width w, as a numeral.
Numeral(w) == [i \in 1..w |-> i]

\* The value 0 of width w.
Zero(w) == [i \in 1..w |-> 0]

\* Values handed to WriteUintN.
UintValues(w) == {Numeral(w)}

\* Buffers handed to the raw Write.
WriteBufs == {<<1, 2>>}

\* Lengths of the buffers handed to the raw Read.
ReadLens == {2}

Reverse(s) == [i \in 1..Len(s) |-> s[Len(s) + 1 - i]]

\* The first n bytes of s, padded with zero bytes when s is shorter.
Prefix(s, n) == [i \in 1..n |-> IF i <= Len(s) THEN s[i] ELSE 0]

(***************************************************************************)
(* encoding/binary as used by the helpers: c.endian.PutUintN(d, val) and   *)
(* c.endian.UintN(d).  Neither is defined for a nil ByteOrder: the callers *)
(* below test for it and panic.                                            *)
(***************************************************************************)
PutUint(endian, val) == IF endian = "BigEndian" THEN val ELSE Reverse(val)

Uint(endian, d) == IF endian = "BigEndian" THEN d ELSE Reverse(d)

VARIABLES
    ncpc,      \* where NewConn is: start, opened, tenbit, configured, failing, returned, failed
    nc,        \* NewConn's arguments and its local err
    c,         \* the *Conn the callers hold: "nil" or "conn"
    f,         \* c.f: "nil" or "file"
    endian,    \* c.endian: "nil", "BigEndian" or "LittleEndian"
    addr,      \* c.addr
    mu,        \* c.mu: the set of its holders (empty: unlocked)
    file,      \* the os.File: "none" (not opened), "open" or "closed" (descriptor released)
    releases,  \* how many times Close was called on the os.File
    ioctls,    \* the ioctl system calls the device has seen, in order
    dev,       \* the bytes of the last write the device took whole
    pc,        \* per goroutine: idle, lock (at c.mu.Lock), dev (in the call on the file), done
    call,      \* per goroutine: the operation called and its arguments
    ret,       \* per goroutine: what the operation returned
    io,        \* per goroutine: the calls on the file the operation made, what the last
               \* returned, and the buffer d of ReadUintN
    closeDone  \* a Close called on the connection has returned

vars == <<ncpc, nc, c, f, endian, addr, mu, file, releases, ioctls, dev,
          pc, call, ret, io, closeDone>>

connVars == <<ncpc, nc, c, endian, addr, ioctls>>

threadVars == <<pc, call, ret, io, closeDone>>

NoCall == [op |-> "none", recv |-> "nil", width |-> 0, val |-> <<>>, data |-> <<>>,
           after |-> FALSE]

NoIO == [calls |-> 0, n |-> 0, err |-> "nil", d |-> <<>>]

NoRet == [kind |-> "none", n |-> 0, err |-> "nil", val |-> <<>>]

Return(n, err, val) == [kind |-> "return", n |-> n, err |-> err, val |-> val]

Panic == [kind |-> "panic", n |-> 0, err |-> "nil", val |-> <<>>]

NoArgs == [tenBit |-> FALSE, addr |-> 0, endian |-> "nil", err |-> "nil"]

Init ==
    /\ ncpc = "start"
    /\ nc = NoArgs
    /\ c = "nil"
    /\ f = "nil"
    /\ endian = "nil"
    /\ addr = 0
    /\ mu = {}
    /\ file = "none"
    /\ releases = 0
    /\ ioctls = <<>>
    /\ dev = <<>>
    /\ pc = [t \in Threads |-> "idle"]
    /\ call = [t \in Threads |-> NoCall]
    /\ ret = [t \in Threads |-> NoRet]
    /\ io = [t \in Threads |-> NoIO]
    /\ closeDone = FALSE

(***************************************************************************)
(* Package os and the kernel.                                              *)
(***************************************************************************)

\* What SyscallConn, Control and the ioctl system call can do on a file that
\* was just opened and is held by NewConn alone: the system call runs, and
\* succeeds or fails with an errno.  (SyscallConn fails only on a nil
\* *os.File and Control only on a file being closed.)
FreshFileIoctl == {"ok", "errno"}

\* os.File.Read of a buffer of length len, the kernel having transferred kn
\* bytes with error ke: an error gives n = 0, and no byte at all is io.EOF.
FileRead(len, kn, ke) ==
    IF ke # "nil" THEN [n |-> 0, err |-> ke]
    ELSE IF kn = 0 /\ len > 0 THEN [n |-> 0, err |-> "EOF"]
    ELSE [n |-> kn, err |-> "nil"]

\* os.File.Write of len bytes, kn of them written when the kernel stopped
\* with error ke: a short count always carries an error.
FileWrite(len, kn, ke) ==
    IF ke # "nil" THEN [n |-> kn, err |-> ke]
    ELSE IF kn # len THEN [n |-> kn, err |-> "ErrShortWrite"]
    ELSE [n |-> kn, err |-> "nil"]

\* The byte counts of a transfer of len bytes the model tries: none, all
\* but one, all.
Counts(len) == {0, len - 1, len}

\* What the kernel can answer to a read of len bytes.
KernelReads(len) ==
    {[kn |-> k, ke |-> "nil"] : k \in Counts(len)} \cup {[kn |-> 0, ke |-> "EIO"]}

\* What the kernel can answer to a write of len bytes.
KernelWrites(len) ==
    {[kn |-> k, ke |-> "nil"] : k \in Counts(len)} \cup {[kn |-> 0, ke |-> "EIO"]}

(***************************************************************************)
(* Conn.ioctl(cmd, arg), on receiver state (recv, c.f), with the outcome   *)
(* of the system-call machinery.  The value returned by sc.Control is      *)
(* dropped, so a Control that does not run leaves err = nil.               *)
(***************************************************************************)
\* The errno of the ioctl system call: 0 (nil) or an error of the device.
Errno(outcome) == IF outcome = "errno" THEN "ENXIO" ELSE "nil"

\* ioctl without err = eno.
ioctlNoErrno(recv, cf, outcome) ==
    IF recv = "nil" THEN "ErrInvalid"
    ELSE IF cf = "nil" THEN "ErrClosed"
    ELSE IF outcome = "scerr" THEN "EINVAL"
    ELSE "nil"

ioctl(recv, cf, outcome) ==
    IF recv = "nil" THEN "ErrInvalid"
    ELSE IF cf = "nil" THEN "ErrClosed"
    ELSE IF outcome = "scerr" THEN "EINVAL"
    ELSE Errno(outcome)

\* The system call reaches the device only when Control runs the function.
ioctlIssued(recv, cf, outcome) ==
    recv # "nil" /\ cf # "nil" /\ outcome \in {"ok", "errno"}

(***************************************************************************)
(* NewConn(bus, addr, tenBit, endian)                                      *)
(***************************************************************************)

\* os.OpenFile, and on success c := &Conn{bus: bus, addr: addr, f: f}.
NewConnOpen ==
    /\ ncpc \in {"start", "failed"}
    /\ \E a \in Addrs, tb \in BOOLEAN, e \in ByteOrders :
         \/ /\ nc' = [tenBit |-> tb, addr |-> a, endian |-> e, err |-> "ENOENT"]
            /\ ncpc' = "failed"
            /\ file' = "none"
            /\ f' = "nil"
            /\ addr' = 0
         \/ /\ nc' = [tenBit |-> tb, addr |-> a, endian |-> e, err |-> "nil"]
            /\ ncpc' = "opened"
            /\ file' = "open"
            /\ f' = "file"
            /\ addr' = a
    /\ endian' = "nil"
    /\ c' = "nil"
    /\ releases' = 0
    /\ ioctls' = <<>>
    /\ UNCHANGED <<mu, dev, threadVars>>

\* err = c.ioctl(TENBIT, 1 or 0)
NewConnTenBit ==
    /\ ncpc = "opened"
    /\ \E o \in FreshFileIoctl :
         /\ nc' = [nc EXCEPT !.err = ioctl("conn", f, o)]
         /\ ioctls' = IF ioctlIssued("conn", f, o)
                      THEN Append(ioctls, [cmd |-> TENBIT, arg |-> IF nc.tenBit THEN 1 ELSE 0,
                                           err |-> Errno(o)])
                      ELSE ioctls
    /\ ncpc' = "tenbit"
    /\ UNCHANGED <<c, f, endian, addr, mu, file, releases, dev, threadVars>>

\* The SLAVE call made whatever the TENBIT call returned.
SlaveAlways == TRUE

\* if err == nil { err = c.ioctl(SLAVE, uintptr(addr)) }
SlaveWanted == nc.err = "nil"

NewConnSlave ==
    /\ ncpc = "tenbit"
    /\ IF SlaveWanted
       THEN \E o \in FreshFileIoctl :
              /\ nc' = [nc EXCEPT !.err = ioctl("conn", f, o)]
              /\ ioctls' = IF ioctlIssued("conn", f, o)
                           THEN Append(ioctls, [cmd |-> SLAVE, arg |-> nc.addr,
                                                err |-> Errno(o)])
                           ELSE ioctls
       ELSE UNCHANGED <<nc, ioctls>>
    /\ ncpc' = "configured"
    /\ UNCHANGED <<c, f, endian, addr, mu, file, releases, dev, threadVars>>

\* The failure path without c.Close().
NewConnFailLeak ==
    /\ c' = "nil"
    /\ ncpc' = "failed"
    /\ UNCHANGED <<f, file, releases>>

\* if err != nil { c.Close(); return nil, err }: the whole of Close, on a
\* Conn no other goroutine holds; what f.Close returns is dropped.
NewConnFail ==
    /\ mu = {}
    /\ IF f = "nil"
       THEN UNCHANGED <<f, file, releases>>
       ELSE /\ file' = "closed"
            /\ releases' = releases + 1
            /\ f' = "nil"
    /\ c' = "nil"
    /\ ncpc' = "failed"

\* return c, nil
NewConnOk ==
    /\ c' = "conn"
    /\ ncpc' = "returned"
    /\ UNCHANGED <<f, file, releases>>

NewConnReturn ==
    /\ ncpc = "configured"
    /\ IF nc.err # "nil" THEN NewConnFail ELSE NewConnOk
    /\ UNCHANGED <<nc, endian, addr, mu, ioctls, dev, threadVars>>

(***************************************************************************)
(* The operations, called by goroutine t on receiver recv.                 *)
(***************************************************************************)

\* The receivers a caller can use: a nil *Conn, or the one NewConn returned.
Receivers == IF c = "conn" THEN {"nil", "conn"} ELSE {"nil"}

\* What a call made now records: whether a Close on the Conn has returned.
After(recv) == recv = "conn" /\ closeDone

\* if c == nil { return ErrInvalid } of Close.
CloseNilErrClosed == "ErrClosed"

CloseNilErr == "ErrInvalid"

\* if c == nil { return 0, ErrInvalid } of Read and Write, and
\* if c == nil { return ErrInvalid } of WriteUintN.
NilErrNone == "nil"

NilErr == "ErrInvalid"

\* The return of goroutine t from its operation with result r.
Done(t, r) ==
    /\ pc' = [pc EXCEPT ![t] = "done"]
    /\ ret' = [ret EXCEPT ![t] = r]

\* Close(): the nil check, then on to c.mu.Lock().
CallClose(t) ==
    /\ pc[t] = "idle"
    /\ \E recv \in Receivers :
         /\ call' = [call EXCEPT ![t] = [NoCall EXCEPT !.op = "Close", !.recv = recv,
                                                        !.after = After(recv)]]
         /\ IF recv = "nil"
            THEN Done(t, Return(0, CloseNilErr, <<>>))
            ELSE pc' = [pc EXCEPT ![t] = "lock"] /\ UNCHANGED ret
    /\ io' = [io EXCEPT ![t] = NoIO]
    /\ UNCHANGED <<connVars, f, mu, file, releases, dev, closeDone>>

\* Read(data): the nil check, then on to c.mu.Lock().
CallRead(t) ==
    /\ pc[t] = "idle"
    /\ \E recv \in Receivers, len \in ReadLens :
         /\ call' = [call EXCEPT ![t] = [NoCall EXCEPT !.op = "Read", !.recv = recv,
                                                        !.width = len, !.after = After(recv)]]
         /\ IF recv = "nil"
            THEN Done(t, Return(0, NilErr, <<>>))
            ELSE pc' = [pc EXCEPT ![t] = "lock"] /\ UNCHANGED ret
    /\ io' = [io EXCEPT ![t] = NoIO]
    /\ UNCHANGED <<connVars, f, mu, file, releases, dev, closeDone>>

\* Write(data): the nil check, then on to c.mu.Lock().
CallWrite(t) ==
    /\ pc[t] = "idle"
    /\ \E recv \in Receivers, data \in WriteBufs :
         /\ call' = [call EXCEPT ![t] = [NoCall EXCEPT !.op = "Write", !.recv = recv,
                                                        !.width = Len(data), !.data = data,
                                                        !.after = After(recv)]]
         /\ IF recv = "nil"
            THEN Done(t, Return(0, NilErr, <<>>))
            ELSE pc' = [pc EXCEPT ![t] = "lock"] /\ UNCHANGED ret
    /\ io' = [io EXCEPT ![t] = NoIO]
    /\ UNCHANGED <<connVars, f, mu, file, releases, dev, closeDone>>

\* ReadUintN(): d := make([]byte, N); c.Read(d), which makes the nil check.
CallReadUint(t) ==
    /\ pc[t] = "idle"
    /\ \E recv \in Receivers, w \in Widths :
         /\ call' = [call EXCEPT ![t] = [NoCall EXCEPT !.op = "ReadUint", !.recv = recv,
                                                        !.width = w, !.after = After(recv)]]
         /\ IF recv = "nil"
            THEN Done(t, Return(0, NilErr, Zero(w)))
            ELSE pc' = [pc EXCEPT ![t] = "lock"] /\ UNCHANGED ret
    /\ io' = [io EXCEPT ![t] = NoIO]
    /\ UNCHANGED <<connVars, f, mu, file, releases, dev, closeDone>>

\* WriteUintN(val): the nil check, d := make([]byte, N),
\* c.endian.PutUintN(d, val), which panics on a nil c.endian, then
\* c.Write(d).
CallWriteUint(t) ==
    /\ pc[t] = "idle"
    /\ \E recv \in Receivers, w \in Widths :
         \E val \in UintValues(w) :
           /\ call' = [call EXCEPT ![t] =
                         [NoCall EXCEPT !.op = "WriteUint", !.recv = recv, !.width = w,
                                        !.val = val, !.after = After(recv),
                                        !.data = IF recv = "nil" \/ endian = "nil"
                                                 THEN <<>> ELSE PutUint(endian, val)]]
           /\ IF recv = "nil"
              THEN Done(t, Return(0, NilErr, <<>>))
              ELSE IF endian = "nil"
                   THEN Done(t, Panic)
                   ELSE pc' = [pc EXCEPT ![t] = "lock"] /\ UNCHANGED ret
    /\ io' = [io EXCEPT ![t] = NoIO]
    /\ UNCHANGED <<connVars, f, mu, file, releases, dev, closeDone>>

\* sync.Mutex: Lock returns only when no goroutine holds the mutex.
MutexFreeAlways == TRUE

MutexFree == mu = {}

\* if c.f == nil { return ErrClosed }, and what the helper makes of it.
ClosedResult(op, w) ==
    IF op = "ReadUint" THEN Return(0, "ErrClosed", Zero(w))
    ELSE Return(0, "ErrClosed", <<>>)

\* Lock without the closed check: the call on the file is made on whatever
\* c.f holds.
LockNoClosedCheck(t) ==
    /\ pc[t] = "lock"
    /\ MutexFree
    /\ pc' = [pc EXCEPT ![t] = "dev"]
    /\ mu' = mu \cup {t}
    /\ UNCHANGED <<connVars, f, file, releases, dev, call, ret, io, closeDone>>

\* Lock whose return on a closed Conn leaves the mutex locked.
LockKeepsMutex(t) ==
    /\ pc[t] = "lock"
    /\ MutexFree
    /\ IF f = "nil"
       THEN /\ Done(t, ClosedResult(call[t].op, call[t].width))
            /\ closeDone' = (closeDone \/ call[t].op = "Close")
       ELSE /\ pc' = [pc EXCEPT ![t] = "dev"]
            /\ UNCHANGED <<ret, closeDone>>
    /\ mu' = mu \cup {t}
    /\ UNCHANGED <<connVars, f, file, releases, dev, call, io>>

\* c.mu.Lock(); defer c.mu.Unlock(); if c.f == nil { return ErrClosed }.
\* The goroutine gets the mutex and makes the closed check under it: a
\* closed Conn returns (and unlocks), an open one enters the call on the
\* file, holding the mutex.
Lock(t) ==
    /\ pc[t] = "lock"
    /\ MutexFree
    /\ IF f = "nil"
       THEN /\ Done(t, ClosedResult(call[t].op, call[t].width))
            /\ closeDone' = (closeDone \/ call[t].op = "Close")
            /\ UNCHANGED mu
       ELSE /\ pc' = [pc EXCEPT ![t] = "dev"]
            /\ mu' = mu \cup {t}
            /\ UNCHANGED <<ret, closeDone>>
    /\ UNCHANGED <<connVars, f, file, releases, dev, call, io>>

\* ReadUintN without the length check.
ReadUintResultNoLen(e, d, n, err) ==
    IF err # "nil" THEN Return(0, err, Zero(Len(d)))
    ELSE IF e = "nil" THEN Panic
    ELSE Return(0, "nil", Uint(e, d))

\* ReadUintN after c.Read(d) returned (n, err) with d holding the bytes.
ReadUintResult(e, d, n, err) ==
    IF err # "nil" THEN Return(0, err, Zero(Len(d)))
    ELSE IF n # Len(d) THEN Return(0, "ErrTruncated", Zero(Len(d)))
    ELSE IF e = "nil" THEN Panic
    ELSE Return(0, "nil", Uint(e, d))

\* WriteUintN after c.Write(d) returned (n, err).
WriteUintResult(len, n, err) ==
    IF err # "nil" THEN Return(0, err, <<>>)
    ELSE IF n # len THEN Return(0, "ErrTruncated", <<>>)
    ELSE Return(0, "nil", <<>>)

\* Read turning a short count into the truncated error.
ReadResultTruncates(len, n, err) ==
    IF err = "nil" /\ n # len THEN Return(0, "ErrTruncated", <<>>)
    ELSE Return(n, err, <<>>)

\* Read, of a buffer of length len, after c.f.Read(data) returned (n, err):
\* return c.f.Read(data).
ReadResult(len, n, err) == Return(n, err, <<>>)

\* return c.f.Read(data): the call on the file returns, the mutex is
\* released, and Read (and ReadUintN around it) returns.
DevRead(t) ==
    /\ pc[t] = "dev"
    /\ call[t].op \in {"Read", "ReadUint"}
    /\ \E k \in KernelReads(call[t].width) :
         LET r == FileRead(call[t].width, k.kn, k.ke)
             d == Prefix(Prefix(dev, r.n), call[t].width)
         IN /\ io' = [io EXCEPT ![t] = [calls |-> io[t].calls + 1, n |-> r.n, err |-> r.err,
                                            d |-> IF call[t].op = "ReadUint" THEN d ELSE <<>>]]
            /\ Done(t, IF call[t].op = "Read"
                       THEN ReadResult(call[t].width, r.n, r.err)
                       ELSE ReadUintResult(endian, d, r.n, r.err))
    /\ mu' = mu \ {t}
    /\ UNCHANGED <<connVars, f, file, releases, dev, call, closeDone>>

\* return c.f.Write(data): likewise; the device keeps the bytes of a write
\* it took whole.
DevWrite(t) ==
    /\ pc[t] = "dev"
    /\ call[t].op \in {"Write", "WriteUint"}
    /\ \E k \in KernelWrites(call[t].width) :
         LET r == FileWrite(call[t].width, k.kn, k.ke)
         IN /\ io' = [io EXCEPT ![t] = [calls |-> io[t].calls + 1, n |-> r.n, err |-> r.err,
                                            d |-> <<>>]]
            /\ dev' = IF k.kn = call[t].width THEN call[t].data ELSE dev
            /\ Done(t, IF call[t].op = "Write"
                       THEN Return(r.n, r.err, <<>>)
                       ELSE WriteUintResult(call[t].width, r.n, r.err))
    /\ mu' = mu \ {t}
    /\ UNCHANGED <<connVars, f, file, releases, call, closeDone>>

\* Close without c.f = nil.
DevCloseKeepsHandle(t) ==
    /\ pc[t] = "dev"
    /\ call[t].op = "Close"
    /\ \E ke \in {"nil", "EIO"} :
         /\ io' = [io EXCEPT ![t] = [calls |-> io[t].calls + 1, n |-> 0, err |-> ke,
                                         d |-> <<>>]]
         /\ Done(t, Return(0, ke, <<>>))
    /\ file' = "closed"
    /\ releases' = releases + 1
    /\ mu' = mu \ {t}
    /\ closeDone' = TRUE
    /\ UNCHANGED <<connVars, f, dev, call>>

\* err := c.f.Close(); c.f = nil; return err.  The descriptor is released
\* whether or not the close reports an error.
DevClose(t) ==
    /\ pc[t] = "dev"
    /\ call[t].op = "Close"
    /\ \E ke \in {"nil", "EIO"} :
         /\ io' = [io EXCEPT ![t] = [calls |-> io[t].calls + 1, n |-> 0, err |-> ke,
                                         d |-> <<>>]]
         /\ Done(t, Return(0, ke, <<>>))
    /\ file' = "closed"
    /\ releases' = releases + 1
    /\ f' = "nil"
    /\ mu' = mu \ {t}
    /\ closeDone' = TRUE
    /\ UNCHANGED <<connVars, dev, call>>

\* The caller takes the result and is free to call again.
Finish(t) ==
    /\ pc[t] = "done"
    /\ pc' = [pc EXCEPT ![t] = "idle"]
    /\ call' = [call EXCEPT ![t] = NoCall]
    /\ ret' = [ret EXCEPT ![t] = NoRet]
    /\ io' = [io EXCEPT ![t] = NoIO]
    /\ UNCHANGED <<connVars, f, mu, file, releases, dev, closeDone>>

Next ==
    \/ NewConnOpen
    \/ NewConnTenBit
    \/ NewConnSlave
    \/ NewConnReturn
    \/ \E t \in Threads :
         \/ CallClose(t)
         \/ CallRead(t)
         \/ CallWrite(t)
         \/ CallReadUint(t)
         \/ CallWriteUint(t)
         \/ Lock(t)
         \/ DevRead(t)
         \/ DevWrite(t)
         \/ DevClose(t)
         \/ Finish(t)

Spec == Init /\ [][Next]_vars

\* The scheduling the operations rely on: a goroutine waiting at c.mu.Lock()
\* gets the mutex if it is free again and again (sync.Mutex hands a starving
\* waiter the mutex), and a call on the file returns.
Fairness ==
    \A t \in Threads :
        /\ SF_vars(Lock(t))
        /\ WF_vars(DevRead(t))
        /\ WF_vars(DevWrite(t))
        /\ WF_vars(DevClose(t))

FairSpec == Spec /\ Fairness

(***************************************************************************)
(* Properties.                                                             *)
(***************************************************************************)

\* Goroutine t has returned from operation op called on the Conn.
Returned(t, op) == pc[t] = "done" /\ call[t].op = op /\ call[t].recv = "conn"

\* Goroutine t is inside a read or write call on the file.
InFileIO(t) == pc[t] = "dev" /\ call[t].op # "Close"

\* C1: an operation called on the Conn after a Close on it has returned
\* returns the closed error, whatever the operation.
C1_ClosedAfterClose ==
    \A t \in Threads :
        (pc[t] = "done" /\ call[t].after)
            => (ret[t].kind = "return" /\ ret[t].err = "ErrClosed")

\* C2: at most one goroutine is inside a call on the file (read, write or
\* close) at any time.
C2_FileCallsExclusive ==
    \A t, u \in Threads : (pc[t] = "dev" /\ pc[u] = "dev") => t = u

\* A goroutine is inside a call on the file while another waits at Lock.
C2_Witness ==
    \E t, u \in Threads : t # u /\ pc[t] = "dev" /\ pc[u] = "lock"

\* C3: a goroutine inside a read or write call on the file finds the Conn
\* open and the descriptor not released: no read or write is issued on a
\* released handle, and none is in flight when Close releases it.
C3_NoIOOnReleasedHandle ==
    \A t \in Threads :
        InFileIO(t) => (f = "file" /\ file = "open")

\* A read or write is in flight while a Close waits for the mutex.
C3_Witness ==
    \E t, u \in Threads :
        /\ InFileIO(t)
        /\ pc[u] = "lock"
        /\ call[u].op = "Close"

\* C4: the file is closed at most once; once a Close on the Conn has
\* returned it has been closed exactly once and c.f is nil; and a Close that
\* did not itself close the file returns the closed error.
C4_ReleasedOnce ==
    /\ releases <= 1
    /\ closeDone => (releases = 1 /\ f = "nil")
    /\ \A t \in Threads :
         Returned(t, "Close") =>
            /\ ret[t].kind = "return"
            /\ io[t].calls = 0 => ret[t].err = "ErrClosed"
            /\ io[t].calls = 1 => ret[t].err = io[t].err
    /\ \A t, u \in Threads :
         (call[t].op = "Close" /\ io[t].calls > 0 /\ call[u].op = "Close" /\ io[u].calls > 0)
            => t = u

\* Two Close calls on the Conn have returned: one closed the file, the other
\* got the closed error.
C4_Witness ==
    \E t, u \in Threads :
        /\ Returned(t, "Close") /\ io[t].calls = 1
        /\ Returned(u, "Close") /\ ret[u].err = "ErrClosed"

\* C5: on the Conn NewConn returned for byte order nc.endian, with no Close
\* returned yet and the device transferring all bytes without error,
\* WriteUintN(val) returns no error having written val's N bytes, and
\* ReadUintN returns without error the value whose encoding in that order
\* the device delivered.
C5_RoundTrip ==
    \A t \in Threads :
        /\ (Returned(t, "WriteUint") /\ ~closeDone /\ io[t].err = "nil")
              => /\ ret[t] = Return(0, "nil", <<>>)
                 /\ io[t].calls = 1
                 /\ io[t].n = call[t].width
        /\ (Returned(t, "ReadUint") /\ io[t].calls = 1 /\ io[t].err = "nil"
                /\ io[t].n = call[t].width)
              => /\ ret[t].kind = "return"
                 /\ ret[t].err = "nil"
                 /\ ret[t].val = Uint(nc.endian, io[t].d)

\* C6: NewConn returns an error and no Conn, with no file left open, when
\* the open or one of the two ioctl calls fails; it returns a Conn only
\* when the open and both ioctl calls succeeded, and the Conn is then open
\* (until a Close is called on it).
C6_NoPartialConn ==
    /\ ncpc = "failed" => (c = "nil" /\ file # "open" /\ nc.err # "nil")
    /\ ncpc = "returned" => c = "conn"
    /\ (\E i \in 1..Len(ioctls) : ioctls[i].err # "nil") => c = "nil"
    /\ c = "conn" =>
         /\ ncpc = "returned"
         /\ nc.err = "nil"
         /\ Len(ioctls) = 2
         /\ ioctls[1].cmd = TENBIT /\ ioctls[1].err = "nil"
         /\ ioctls[2].cmd = SLAVE /\ ioctls[2].err = "nil"
         /\ releases = 0 => (f = "file" /\ file = "open")

\* NewConn has failed at the second ioctl call and closed the file it opened.
C6_Witness ==
    /\ ncpc = "failed"
    /\ Len(ioctls) = 2
    /\ ioctls[2].err # "nil"
    /\ file = "closed"

\* C7: a ReadUintN whose read on the file returned, without error, a count
\* other than N returns the truncated error and the value 0.
C7_ShortReadTruncated ==
    \A t \in Threads :
        (Returned(t, "ReadUint") /\ io[t].calls = 1 /\ io[t].err = "nil"
            /\ io[t].n # call[t].width)
          => ret[t] = Return(0, "ErrTruncated", Zero(call[t].width))

\* A ReadUint64 has returned after its read delivered 7 bytes without error.
C7_Witness ==
    \E t \in Threads :
        /\ Returned(t, "ReadUint")
        /\ call[t].width = 8
        /\ io[t].calls = 1 /\ io[t].err = "nil" /\ io[t].n = call[t].width - 1

\* C8: WriteUintN on the Conn NewConn returned, no Close having returned,
\* makes one write of N bytes on the file and returns: no error exactly when
\* all N bytes were written without error, the truncated error when fewer
\* were written without error.
C8_WriteUintWrites ==
    \A t \in Threads :
        (Returned(t, "WriteUint") /\ ~closeDone) =>
            /\ ret[t].kind = "return"
            /\ io[t].calls = 1
            /\ ret[t].err = "nil" <=> (io[t].err = "nil" /\ io[t].n = call[t].width)
            /\ (io[t].err = "nil" /\ io[t].n # call[t].width) => ret[t].err = "ErrTruncated"

\* C9: an operation called on a nil *Conn returns the invalid error at
\* once: it never waits for or holds the mutex and never makes a call on
\* the file.
C9_NilReceiverInvalid ==
    \A t \in Threads :
        (call[t].op # "none" /\ call[t].recv = "nil") =>
            /\ pc[t] = "done"
            /\ ret[t].kind = "return"
            /\ ret[t].err = "ErrInvalid"
            /\ io[t].calls = 0
            /\ t \notin mu

\* Every kind of operation has returned from a call on a nil *Conn while a
\* Conn exists.
C9_Witness ==
    /\ c = "conn"
    /\ \E t \in Threads :
         pc[t] = "done" /\ call[t].recv = "nil" /\ call[t].op = "WriteUint"
    /\ \E t \in Threads :
         pc[t] = "done" /\ call[t].recv = "nil" /\ call[t].op = "ReadUint"

\* C10 as stated: Close on a nil *Conn returns the closed error.
C10_CloseNilClosed ==
    \A t \in Threads :
        (pc[t] = "done" /\ call[t].op = "Close" /\ call[t].recv = "nil")
            => ret[t].err = "ErrClosed"

\* C10 amended: Close on a nil *Conn returns the invalid error; Close on a
\* Conn on which a Close has already returned returns the closed error.
C10_CloseNilInvalid ==
    \A t \in Threads :
        /\ (pc[t] = "done" /\ call[t].op = "Close" /\ call[t].recv = "nil")
              => ret[t] = Return(0, "ErrInvalid", <<>>)
        /\ (pc[t] = "done" /\ call[t].op = "Close" /\ call[t].after)
              => ret[t] = Return(0, "ErrClosed", <<>>)

\* A Close on a nil *Conn and a Close on the closed Conn have both returned.
C10_Witness ==
    \E t, u \in Threads :
        /\ pc[t] = "done" /\ call[t].op = "Close" /\ call[t].recv = "nil"
        /\ pc[u] = "done" /\ call[u].op = "Close" /\ call[u].after

\* C11: the Conn NewConn returned carries the byte order and the address
\* NewConn was given, and the helpers use that order: WriteUintN hands
\* c.Write the value encoded in it and ReadUintN returns the bytes its read
\* delivered decoded in it.
C11_ByteOrderKept ==
    /\ c = "conn" => (endian = nc.endian /\ addr = nc.addr)
    /\ \A t \in Threads :
         /\ (Returned(t, "WriteUint") /\ ~closeDone)
               => (ret[t].kind = "return" /\ call[t].data = PutUint(nc.endian, call[t].val))
         /\ (Returned(t, "ReadUint") /\ io[t].calls = 1 /\ io[t].err = "nil"
                 /\ io[t].n = call[t].width)
               => ret[t] = Return(0, "nil", Uint(nc.endian, io[t].d))

\* The last ioctl system call the device has seen failed.
LastIoctlFailed == ioctls # <<>> /\ ioctls[Len(ioctls)].err # "nil"

IOOps == {"Read", "Write", "ReadUint", "WriteUint"}

\* C13: a call of Read, Write, ReadUintN or WriteUintN makes at most one
\* call on the file: none on a nil *Conn or once a Close has returned, one
\* on the open Conn, whatever that call returns.
C13_OneFileCall ==
    \A t \in Threads :
        (pc[t] = "done" /\ call[t].op \in IOOps) =>
            /\ io[t].calls <= 1
            /\ (call[t].recv = "nil" \/ call[t].after) => io[t].calls = 0
            /\ (call[t].recv = "conn" /\ ~closeDone) => io[t].calls = 1

\* The handle of the Conn: c.f is set and the descriptor open, or c.f is nil
\* and the descriptor released.
HandleOpen == f = "file" /\ file = "open"

HandleNone == f = "nil" /\ file = "closed"

\* Some goroutine's Close completes its c.f.Close() in this step.
CloseCompletes ==
    \E t \in Threads : pc[t] = "dev" /\ call[t].op = "Close" /\ pc'[t] = "done"

\* C14: the handle of the Conn NewConn returned is open or None in every
\* state; a step changes it only from open to None, and only a Close does;
\* once None it stays None, and the Conn stays the same object.
C14_OneWay ==
    /\ [](c = "conn" => (HandleOpen \/ HandleNone))
    /\ [][c = "conn" =>
            /\ c' = "conn"
            /\ HandleNone => HandleNone'
            /\ (HandleOpen /\ ~HandleOpen') => (HandleNone' /\ CloseCompletes)]_vars

\* The Conn is closed and a Read called after the Close has returned.
C14_Witness ==
    /\ c = "conn"
    /\ HandleNone
    /\ \E t \in Threads : Returned(t, "Read") /\ call[t].after

\* Goroutine t's raw Read or Write comes back from its call on the file in
\* this step.
RawIOCompletes(t) ==
    pc[t] = "dev" /\ call[t].op \in {"Read", "Write"} /\ pc'[t] = "done"

\* C15: a raw Read or Write on the open Conn returns the count and the error
\* its one call on the file returned, a short count without error included,
\* and the handle is open before and after the call returns.
C15_PassThrough ==
    /\ [](\A t \in Threads :
            ((Returned(t, "Read") \/ Returned(t, "Write")) /\ io[t].calls > 0)
               => (io[t].calls = 1 /\ ret[t] = Return(io[t].n, io[t].err, <<>>)))
    /\ [][\A t \in Threads : RawIOCompletes(t) => (HandleOpen /\ HandleOpen')]_vars

\* A Read of 2 bytes has returned (1, nil) and the Conn is still open.
C15_Witness ==
    \E t \in Threads :
        /\ Returned(t, "Read")
        /\ io[t].calls = 1 /\ io[t].n = 1 /\ io[t].err = "nil"
        /\ ret[t] = Return(1, "nil", <<>>)
        /\ HandleOpen

\* Goroutine t's Close has returned after its c.f.Close() failed.
CloseFailed(t) == Returned(t, "Close") /\ io[t].calls = 1 /\ io[t].err # "nil"

\* C16: a Close whose c.f.Close() failed returns that error and leaves c.f
\* nil with the file closed once; every operation called afterwards returns
\* the closed error and makes no call on the file.
C16_FailedCloseIsTerminal ==
    \A t \in Threads :
        CloseFailed(t) =>
            /\ ret[t] = Return(0, io[t].err, <<>>)
            /\ f = "nil"
            /\ releases = 1
            /\ \A u \in Threads :
                 (pc[u] = "done" /\ call[u].after)
                    => (ret[u].kind = "return" /\ ret[u].err = "ErrClosed"
                        /\ io[u].calls = 0)

\* C17: a goroutine holds the mutex only while inside its call on the file,
\* so every return path has released it; NewConn's failure path finds it
\* free; and every call that has reached c.mu.Lock() ends.
C17_DeadlockFree ==
    /\ [](\A t \in Threads : t \in mu => pc[t] = "dev")
    /\ [](ncpc = "configured" => mu = {})
    /\ \A t \in Threads : (pc[t] \in {"lock", "dev"}) ~> (pc[t] = "done")

\* One goroutine is inside Close's call on the file and every other one
\* waits for the mutex.
C17_Witness ==
    \E t \in Threads :
        /\ pc[t] = "dev"
        /\ call[t].op = "Close"
        /\ \A u \in Threads \ {t} : pc[u] = "lock"

\* C18: the device sees NewConn's ioctl calls only after the open, TENBIT
\* first, with argument 1 or 0 as tenBit asks, then, only if TENBIT
\* succeeded, SLAVE with the address given, and nothing more; and a call on
\* the file by Read, Write or Close is made only after both have succeeded.
C18_ConstructOrder ==
    /\ (ncpc = "start" \/ file = "none") => ioctls = <<>>
    /\ ncpc = "opened" => (ioctls = <<>> /\ file = "open")
    /\ Len(ioctls) <= 2
    /\ Len(ioctls) >= 1 =>
         /\ ioctls[1].cmd = TENBIT
         /\ ioctls[1].arg = (IF nc.tenBit THEN 1 ELSE 0)
    /\ Len(ioctls) = 2 =>
         /\ ioctls[1].err = "nil"
         /\ ioctls[2].cmd = SLAVE
         /\ ioctls[2].arg = nc.addr
    /\ ncpc \in {"tenbit", "configured"} => Len(ioctls) >= 1
    /\ (ncpc = "configured" /\ ioctls[1].err = "nil") => Len(ioctls) = 2
    /\ \A t \in Threads :
         (pc[t] = "dev" \/ io[t].calls > 0) =>
            /\ Len(ioctls) = 2
            /\ ioctls[1].err = "nil"
            /\ ioctls[2].err = "nil"

\* The TENBIT call has failed and NewConn has gone past the SLAVE call
\* without making it.
C18_Witness ==
    /\ ncpc = "configured"
    /\ Len(ioctls) = 1
    /\ ioctls[1].err # "nil"
    /\ nc.tenBit

====
